---- MODULE Spec2Model ----
(***************************************************************************)
(* Model of the e-commerce scraper's dispatch factory                      *)
(* (src/src/scrapers/scraper_factory.py) and of the command-line driver    *)
(* (src/main.py).  URLs, hosts and patterns are character strings; the     *)
(* registry is Python's insertion-ordered dict, held as a sequence of      *)
(* key/value records.                                                      *)
(***************************************************************************)
EXTENDS Integers, Sequences, FiniteSets, TLC

VARIABLES
    SCRAPER_MAP,   \* ScraperFactory.SCRAPER_MAP: the ordered dict pattern -> class
    history,       \* the register_scraper calls made so far (pattern, class), in call order
    last,          \* the most recent factory call: operation, arguments, return value
    prev,          \* the create_scraper call before `last`, with the registry unchanged since
    args,          \* main: the parsed command line
    dbEnabled,     \* main: config.get('database.enabled', True)
    pc,            \* main: position in main()
    scraper,       \* main: the value create_scraper returned
    acquired,      \* main: number of times the scraper's scope was entered (__enter__)
    released,      \* main: number of times the scraper's scope was left (__exit__)
    result,        \* main: the value scrape() returned
    pending,       \* main: the exception in flight, if any
    output,        \* main: what was printed and exported
    exitCode       \* main: main()'s return value

factoryVars == <<SCRAPER_MAP, history, last, prev>>
mainVars == <<args, dbEnabled, pc, scraper, acquired, released, result, pending, output, exitCode>>
vars == <<SCRAPER_MAP, history, last, prev, args, dbEnabled, pc, scraper, acquired,
          released, result, pending, output, exitCode>>

(***************************************************************************)
(* Bounds of the model.                                                    *)
(***************************************************************************)
MaxRegistrations == 2      \* register_scraper calls in one run of the factory
MaxPairRegistrations == 1  \* register_scraper calls in one run of the two-call model

(***************************************************************************)
(* Python str operations used by the factory.                              *)
(***************************************************************************)
None == "None"

UpperCase == "ABCDEFGHIJKLMNOPQRSTUVWXYZ"
LowerCase == "abcdefghijklmnopqrstuvwxyz"

\* s[i] for a 1-based i
CharAt(s, i) == SubSeq(s, i, i)

\* s[i-1:] of Python, for a 1-based i
From(s, i) == SubSeq(s, i, Len(s))

\* p in s
Contains(s, p) ==
    \E i \in 1..(Len(s) - Len(p) + 1) : SubSeq(s, i, i + Len(p) - 1) = p

\* s.startswith(p)
StartsWith(s, p) == Len(s) >= Len(p) /\ SubSeq(s, 1, Len(p)) = p

\* s.find(p, start) as a 1-based index, 0 when p does not occur at or after start
Find(s, p, start) ==
    LET hits == {i \in start..(Len(s) - Len(p) + 1) : SubSeq(s, i, i + Len(p) - 1) = p}
    IN  IF hits = {} THEN 0 ELSE CHOOSE i \in hits : \A j \in hits : i <= j

\* the characters of s, as a set
CharSet(s) == {CharAt(s, i) : i \in 1..Len(s)}

UpperSet == CharSet(UpperCase)
LowerOf == [c \in UpperSet |-> CharAt(LowerCase, Find(UpperCase, c, 1))]

\* c.lower() for one character
LowerChar(c) == IF c \in UpperSet THEN LowerOf[c] ELSE c

RECURSIVE Lower(_)
\* s.lower()
Lower(s) == IF Len(s) = 0 THEN "" ELSE LowerChar(CharAt(s, 1)) \o Lower(From(s, 2))

(***************************************************************************)
(* urllib.parse.urlparse(url), as far as its netloc: the scheme is split   *)
(* off at the first ':', a netloc is present only after '//' and runs to   *)
(* the first of '/', '?', '#'; an unbalanced '[' or ']' in it raises       *)
(* ValueError.                                                             *)
(***************************************************************************)
Letters == CharSet(LowerCase) \cup CharSet(UpperCase)
SchemeChars == Letters \cup CharSet("0123456789+-.")

AfterScheme(url) ==
    LET i == Find(url, ":", 1)
    IN  IF /\ i > 1
           /\ CharAt(url, 1) \in Letters
           /\ \A k \in 1..(i - 1) : CharAt(url, k) \in SchemeChars
        THEN From(url, i + 1)
        ELSE url

SplitNetloc(rest) ==
    LET ends == {Find(rest, c, 3) : c \in {"/", "?", "#"}} \ {0}
        delim == IF ends = {} THEN Len(rest) + 1
                 ELSE CHOOSE i \in ends : \A j \in ends : i <= j
    IN  SubSeq(rest, 3, delim - 1)

urlparse(url) ==
    LET rest == AfterScheme(url)
        netloc == IF StartsWith(rest, "//") THEN SplitNetloc(rest) ELSE ""
    IN  IF \/ (Contains(netloc, "[") /\ ~Contains(netloc, "]"))
           \/ (Contains(netloc, "]") /\ ~Contains(netloc, "["))
        THEN [raised |-> TRUE, netloc |-> ""]
        ELSE [raised |-> FALSE, netloc |-> netloc]

(***************************************************************************)
(* Inputs of the factory model.                                            *)
(***************************************************************************)
UserInfos == {"", "amazon@"}
Hosts == {"www.amazon.com", "amazon.daraz.pk", "pk.daraz.pk", "Shopify.com",
          "www.example-shop.com", "[daraz.pk", ""}
Ports == {"", ":8080"}
Paths == {"", "/amazon?k=daraz"}

URLs ==
    {"https://" \o u \o h \o p \o q : u \in UserInfos, h \in Hosts, p \in Ports, q \in Paths}
    \cup {"", "www.amazon.com/s?k=laptop", "https:/daraz.pk"}

\* patterns and classes handed to register_scraper at run time
Patterns == {"amazon", "Shopify", "shop", "pk"}
Classes == {"ShopifyScraper", "DarazScraper"}

\* the URLs given to main on the command line ("" is no URL argument)
MainUrls == {"", "https://www.amazon.com/s?k=laptop", "https://www.daraz.pk/smartphones/",
             "https://www.example-shop.com/", "https://[daraz.pk/"}

(***************************************************************************)
(* ScraperFactory                                                          *)
(***************************************************************************)
BuiltinMap ==
    << [key |-> "amazon", value |-> "AmazonScraper"],
       [key |-> "daraz",  value |-> "DarazScraper"] >>

Keys(map) == {map[i].key : i \in 1..Len(map)}

\* ScraperFactory._extract_domain
extract_domain(url) ==
    LET parsed == urlparse(url)
    IN  IF parsed.raised THEN None
        ELSE LET domain == Lower(parsed.netloc)
             IN  IF StartsWith(domain, "www.") THEN From(domain, 5) ELSE domain

\* ScraperFactory._get_scraper_class
get_scraper_class(map, domain) ==
    LET hits == {i \in 1..Len(map) : Contains(domain, map[i].key)}
    IN  IF hits = {} THEN None
        ELSE map[CHOOSE i \in hits : \A j \in hits : i <= j].value

\* extract_domain on the model's URLs, evaluated once per URL
DomainCache == [url \in URLs \cup MainUrls |-> extract_domain(url)]

\* ScraperFactory.create_scraper: the class instantiated, or None
create_scraper(map, url) ==
    LET domain == DomainCache[url]
    IN  IF domain = None \/ domain = "" THEN None
        ELSE get_scraper_class(map, domain)

\* a registry kept as a list of pairs: every registration is appended
register_scraper_append(map, domain_pattern, scraper_class) ==
    Append(map, [key |-> domain_pattern, value |-> scraper_class])

\* a registry that re-inserts: del SCRAPER_MAP[pattern] before the assignment
register_scraper_reinsert(map, domain_pattern, scraper_class) ==
    Append(SelectSeq(map, LAMBDA e : e.key # domain_pattern),
           [key |-> domain_pattern, value |-> scraper_class])

\* cls.SCRAPER_MAP[domain_pattern] = scraper_class
register_scraper(map, domain_pattern, scraper_class) ==
    IF domain_pattern \in Keys(map)
    THEN [i \in 1..Len(map) |->
            IF map[i].key = domain_pattern
            THEN [key |-> domain_pattern, value |-> scraper_class]
            ELSE map[i]]
    ELSE Append(map, [key |-> domain_pattern, value |-> scraper_class])

\* ScraperFactory.get_supported_domains
get_supported_domains(map) == [i \in 1..Len(map) |-> map[i].key]

NoCall == [op |-> "none", arg |-> "", cls |-> None, domains |-> <<>>]

(***************************************************************************)
(* The factory's operations as actions.  `last` records the call and what  *)
(* it returned; `history` records the registrations made at run time.      *)
(***************************************************************************)
RegisterScraper(domain_pattern, scraper_class) ==
    /\ SCRAPER_MAP' = register_scraper(SCRAPER_MAP, domain_pattern, scraper_class)
    /\ history' = Append(history, [key |-> domain_pattern, value |-> scraper_class])
    /\ last' = [op |-> "register_scraper", arg |-> domain_pattern,
                cls |-> scraper_class, domains |-> <<>>]
    /\ UNCHANGED mainVars

CreateScraper(url) ==
    /\ last' = [op |-> "create_scraper", arg |-> url,
                cls |-> create_scraper(SCRAPER_MAP, url), domains |-> <<>>]
    /\ UNCHANGED <<SCRAPER_MAP, history>>
    /\ UNCHANGED mainVars

GetSupportedDomains ==
    /\ last' = [op |-> "get_supported_domains", arg |-> "", cls |-> None,
                domains |-> get_supported_domains(SCRAPER_MAP)]
    /\ UNCHANGED <<SCRAPER_MAP, history>>
    /\ UNCHANGED mainVars

(***************************************************************************)
(* main(): the command line, the scraper's managed scope, the summary,     *)
(* the exports and the exception handlers.                                 *)
(***************************************************************************)
MaxItems == 2   \* largest successful / failed count of a Scrape Result

\* the exit codes main returns
ExitOk == 0
ExitNoUrl == 1
ExitUnsupported == 1
ExitNoProducts == 1
ExitInterrupted == 130
ExitError == 1
NoExit == 0 - 1

NoResult == [successful |-> -1, failed |-> -1]
NoPending == [kind |-> "none", at |-> ""]
NoOutput == [listed |-> <<>>, summary |-> FALSE, message |-> "", csv |-> FALSE,
             json |-> FALSE, dbOpened |-> FALSE, dbSaved |-> FALSE]
NoScraper == [cls |-> None, pagination_limit |-> 0]

Formats == {{"csv"}, {"json"}, {"csv", "json"}}

ArgSpace ==
    [url : MainUrls, format : Formats, database : BOOLEAN, no_database : BOOLEAN,
     list_sources : BOOLEAN, max_pages : {0, 3}]

\* BaseScraper.__enter__: the session is acquired
acquire_session(n) == n + 1

\* BaseScraper.__exit__: the session is released; the exception in flight propagates
release_session(n) == n + 1

\* `with scraper:` runs __exit__ however the body ends: "return", "raise", "interrupt"
WithBlockNextNoCleanup(outcome) == IF outcome = "return" THEN "exit" ELSE "handler"

WithBlockNext(outcome) == "exit"

\* if args.database or config.get('database.enabled', True)
db_storage_wanted(a, enabled) == a.database \/ enabled

\* if result.successful > 0: export, return 0; else: return 1
after_summary_total(res) ==
    IF res.successful + res.failed > 0
    THEN [pc |-> "export_csv", message |-> "", code |-> NoExit]
    ELSE [pc |-> "done", message |-> "no_products", code |-> ExitNoProducts]

after_summary(res) ==
    IF res.successful > 0
    THEN [pc |-> "export_csv", message |-> "", code |-> NoExit]
    ELSE [pc |-> "done", message |-> "no_products", code |-> ExitNoProducts]

\* the except clauses of main: KeyboardInterrupt first, then Exception
except_clause_generic(kind) == [message |-> "error", code |-> ExitError]

except_clause(kind) ==
    IF kind = "KeyboardInterrupt"
    THEN [message |-> "interrupted", code |-> ExitInterrupted]
    ELSE [message |-> "error", code |-> ExitError]

\* the positions of main inside its try block at which an interrupt can arrive
InTry == {"create", "enter", "scrape", "summary", "export_csv", "export_json", "export_db"}

MainStart ==
    /\ pc = "start"
    /\ IF args.list_sources
       THEN /\ output' = [output EXCEPT !.listed = get_supported_domains(SCRAPER_MAP)]
            /\ exitCode' = ExitOk
            /\ pc' = "done"
       ELSE IF args.url = ""
       THEN /\ output' = [output EXCEPT !.message = "url_required"]
            /\ exitCode' = ExitNoUrl
            /\ pc' = "done"
       ELSE /\ pc' = "create"
            /\ UNCHANGED <<output, exitCode>>
    /\ UNCHANGED <<args, dbEnabled, scraper, acquired, released, result, pending>>
    /\ UNCHANGED factoryVars

MainCreate ==
    /\ pc = "create"
    /\ LET cls == create_scraper(SCRAPER_MAP, args.url)
       IN  IF cls = None
           THEN /\ scraper' = NoScraper
                /\ output' = [output EXCEPT !.message = "unsupported"]
                /\ exitCode' = ExitUnsupported
                /\ pc' = "done"
           ELSE /\ scraper' = [cls |-> cls, pagination_limit |-> args.max_pages]
                /\ pc' = "enter"
                /\ UNCHANGED <<output, exitCode>>
    /\ UNCHANGED <<args, dbEnabled, acquired, released, result, pending>>
    /\ UNCHANGED factoryVars

\* with scraper: -- __enter__ acquires the session, or fails to
ScraperEnter ==
    /\ pc = "enter"
    /\ \/ /\ acquired' = acquire_session(acquired)
          /\ pc' = "scrape"
          /\ UNCHANGED pending
       \/ /\ pending' = [kind |-> "Exception", at |-> "enter"]
          /\ pc' = "handler"
          /\ UNCHANGED acquired
    /\ UNCHANGED <<args, dbEnabled, scraper, released, result, output, exitCode>>
    /\ UNCHANGED factoryVars

\* result = scraper.scrape(args.url): returns a Result or raises
Scrape ==
    /\ pc = "scrape"
    /\ \/ \E s \in 0..MaxItems, f \in 0..MaxItems :
             /\ result' = [successful |-> s, failed |-> f]
             /\ pc' = WithBlockNext("return")
             /\ UNCHANGED pending
       \/ /\ pending' = [kind |-> "Exception", at |-> "scrape"]
          /\ pc' = WithBlockNext("raise")
          /\ UNCHANGED result
    /\ UNCHANGED <<args, dbEnabled, scraper, acquired, released, output, exitCode>>
    /\ UNCHANGED factoryVars

\* leaving the with block: __exit__ releases the session
ScraperExit ==
    /\ pc = "exit"
    /\ released' = release_session(released)
    /\ pc' = IF pending.kind = "none" THEN "summary" ELSE "handler"
    /\ UNCHANGED <<args, dbEnabled, scraper, acquired, result, pending, output, exitCode>>
    /\ UNCHANGED factoryVars

\* KeyboardInterrupt raised at the current position of the try block
Interrupt ==
    /\ pc \in InTry
    /\ pending' = [kind |-> "KeyboardInterrupt", at |-> pc]
    /\ pc' = IF pc = "scrape" THEN WithBlockNext("interrupt") ELSE "handler"
    /\ UNCHANGED <<args, dbEnabled, scraper, acquired, released, result, output, exitCode>>
    /\ UNCHANGED factoryVars

\* print_result_summary(result), then the branch on result.successful
Summary ==
    /\ pc = "summary"
    /\ LET nxt == after_summary(result)
       IN  /\ output' = [output EXCEPT !.summary = TRUE, !.message = nxt.message]
           /\ exitCode' = nxt.code
           /\ pc' = nxt.pc
    /\ UNCHANGED <<args, dbEnabled, scraper, acquired, released, result, pending>>
    /\ UNCHANGED factoryVars

\* export_data: CSV export
ExportCsv ==
    /\ pc = "export_csv"
    /\ IF "csv" \in args.format
       THEN \E ok \in BOOLEAN : output' = [output EXCEPT !.csv = ok]
       ELSE UNCHANGED output
    /\ pc' = "export_json"
    /\ UNCHANGED <<args, dbEnabled, scraper, acquired, released, result, pending, exitCode>>
    /\ UNCHANGED factoryVars

\* export_data: JSON export
ExportJson ==
    /\ pc = "export_json"
    /\ IF "json" \in args.format
       THEN \E ok \in BOOLEAN : output' = [output EXCEPT !.json = ok]
       ELSE UNCHANGED output
    /\ pc' = "export_db"
    /\ UNCHANGED <<args, dbEnabled, scraper, acquired, released, result, pending, exitCode>>
    /\ UNCHANGED factoryVars

\* export_data: database storage, then main returns 0
ExportDb ==
    /\ pc = "export_db"
    /\ IF db_storage_wanted(args, dbEnabled)
       THEN \E ok \in BOOLEAN :
               output' = [output EXCEPT !.dbOpened = TRUE, !.dbSaved = ok,
                                        !.message = "completed"]
       ELSE output' = [output EXCEPT !.message = "completed"]
    /\ exitCode' = ExitOk
    /\ pc' = "done"
    /\ UNCHANGED <<args, dbEnabled, scraper, acquired, released, result, pending>>
    /\ UNCHANGED factoryVars

\* except KeyboardInterrupt / except Exception
Handler ==
    /\ pc = "handler"
    /\ LET h == except_clause(pending.kind)
       IN  /\ output' = [output EXCEPT !.message = h.message]
           /\ exitCode' = h.code
    /\ pc' = "done"
    /\ UNCHANGED <<args, dbEnabled, scraper, acquired, released, result, pending>>
    /\ UNCHANGED factoryVars

(***************************************************************************)
(* Specifications.                                                         *)
(***************************************************************************)
MainIdle ==
    /\ args = [url |-> "", format |-> {"csv", "json"}, database |-> FALSE,
               no_database |-> FALSE, list_sources |-> FALSE, max_pages |-> 0]
    /\ dbEnabled = TRUE
    /\ pc = "idle"
    /\ scraper = NoScraper
    /\ acquired = 0
    /\ released = 0
    /\ result = NoResult
    /\ pending = NoPending
    /\ output = NoOutput
    /\ exitCode = NoExit

FactoryInit ==
    /\ SCRAPER_MAP = BuiltinMap
    /\ history = <<>>
    /\ last = NoCall
    /\ prev = NoCall

\* the factory, driven by any sequence of its three operations
Init == FactoryInit /\ MainIdle

Next ==
    \/ \E p \in Patterns, c \in Classes :
          /\ Len(history) < MaxRegistrations
          /\ RegisterScraper(p, c)
          /\ UNCHANGED prev
    \/ \E url \in URLs : CreateScraper(url) /\ UNCHANGED prev
    \/ GetSupportedDomains /\ UNCHANGED prev

Spec == Init /\ [][Next]_vars

\* the factory with the previous create_scraper call kept, to compare two calls
PairNext ==
    \/ \E p \in Patterns, c \in Classes :
          /\ Len(history) < MaxPairRegistrations
          /\ RegisterScraper(p, c)
          /\ prev' = NoCall
    \/ \E url \in URLs :
          /\ CreateScraper(url)
          /\ prev' = IF last.op = "create_scraper" THEN last ELSE NoCall

PairSpec == Init /\ [][PairNext]_vars

\* one run of main() on any command line and configuration
MainInit ==
    /\ FactoryInit
    /\ args \in ArgSpace
    /\ dbEnabled \in BOOLEAN
    /\ pc = "start"
    /\ scraper = NoScraper
    /\ acquired = 0
    /\ released = 0
    /\ result = NoResult
    /\ pending = NoPending
    /\ output = NoOutput
    /\ exitCode = NoExit

MainNext ==
    \/ MainStart
    \/ MainCreate
    \/ ScraperEnter
    \/ Scrape
    \/ ScraperExit
    \/ Interrupt
    \/ Summary
    \/ ExportCsv
    \/ ExportJson
    \/ ExportDb
    \/ Handler

MainSpec == MainInit /\ [][MainNext]_vars

(***************************************************************************)
(* The host component of a URL, as the claims speak of it: the netloc      *)
(* without its userinfo ("user@") and without its port (":8080").  A URL   *)
(* that does not parse, or has no netloc, has the empty host.              *)
(***************************************************************************)
LastIndex(s, c) ==
    LET hits == {i \in 1..Len(s) : CharAt(s, i) = c}
    IN  IF hits = {} THEN 0 ELSE CHOOSE i \in hits : \A j \in hits : j <= i

HostOfUrl(url) ==
    LET parsed == urlparse(url)
        hostport == From(parsed.netloc, LastIndex(parsed.netloc, "@") + 1)
        colon == Find(hostport, ":", 1)
    IN  IF parsed.raised THEN ""
        ELSE IF colon = 0 THEN hostport ELSE SubSeq(hostport, 1, colon - 1)

HostOf == [url \in URLs \cup MainUrls |-> HostOfUrl(url)]

\* the host lower-cased, a leading "www." stripped
NormHost ==
    [url \in URLs \cup MainUrls |->
        LET h == Lower(HostOf[url])
        IN  IF StartsWith(h, "www.") THEN From(h, 5) ELSE h]

\* the positions of the registry whose pattern is a substring of s
Matching(s) == {i \in 1..Len(SCRAPER_MAP) : Contains(s, SCRAPER_MAP[i].key)}

Min(S) == CHOOSE i \in S : \A j \in S : i <= j

\* every registration so far, the built-in ones first
AllRegistrations == BuiltinMap \o history

\* the constructor of the most recent registration of pattern k
MostRecent(k) ==
    LET at == {i \in 1..Len(AllRegistrations) : AllRegistrations[i].key = k}
    IN  AllRegistrations[CHOOSE i \in at : \A j \in at : j <= i].value

RECURSIVE FirstOccurrences(_, _)
\* the distinct patterns of regs in the order of their first registration
FirstOccurrences(regs, seen) ==
    IF regs = <<>> THEN <<>>
    ELSE IF Head(regs).key \in seen THEN FirstOccurrences(Tail(regs), seen)
    ELSE <<Head(regs).key>> \o FirstOccurrences(Tail(regs), seen \cup {Head(regs).key})

\* the constructor the registry holds for pattern k
Lookup(k) == SCRAPER_MAP[CHOOSE i \in 1..Len(SCRAPER_MAP) : SCRAPER_MAP[i].key = k].value

(***************************************************************************)
(* Claims about the factory.                                               *)
(***************************************************************************)

\* C1: whenever the URL's host (lower-cased, leading "www." stripped) contains a
\* registered pattern, create_scraper returns the constructor of the first
\* registered pattern that is a substring of that host.
C1_FirstMatchOnHost ==
    last.op = "create_scraper" =>
        LET hits == Matching(NormHost[last.arg])
        IN  hits # {} => last.cls = SCRAPER_MAP[Min(hits)].value

\* C2: create_scraper returns Unsupported (None) exactly when the URL is
\* malformed (does not parse, or has no host) or its host contains no
\* registered pattern.
C2_UnsupportedIffBadOrUnmatched ==
    last.op = "create_scraper" =>
        (last.cls = None <=>
            (HostOf[last.arg] = "" \/ Matching(NormHost[last.arg]) = {}))

\* C3: for every registered pattern, whatever its letter case, and every URL
\* whose host contains it as a substring, create_scraper returns an adapter
\* and not Unsupported.
C3_HostContainingPatternIsSupported ==
    last.op = "create_scraper" =>
        (Matching(HostOf[last.arg]) # {} => last.cls # None)

\* C7: after any sequence of register_scraper calls the registry holds every
\* registered pattern once, maps it to the constructor of its most recent
\* registration, and still holds the built-in patterns.
C7_MostRecentRegistrationWins ==
    /\ \A i, j \in 1..Len(SCRAPER_MAP) :
          SCRAPER_MAP[i].key = SCRAPER_MAP[j].key => i = j
    /\ Keys(SCRAPER_MAP) = Keys(AllRegistrations)
    /\ \A i \in 1..Len(SCRAPER_MAP) :
          SCRAPER_MAP[i].value = MostRecent(SCRAPER_MAP[i].key)
    /\ Keys(BuiltinMap) \subseteq Keys(SCRAPER_MAP)

\* C7 witness: a pattern has just been registered a second time, with another constructor
C7_Witness ==
    /\ last.op = "register_scraper"
    /\ Len(history) = 2
    /\ history[1].key = history[2].key
    /\ history[1].value # history[2].value

\* C8: get_supported_domains returns the registered patterns in registration
\* order (the order in which the patterns were first registered: a
\* re-registration keeps the pattern's place), and create_scraper tries the
\* patterns in that order.
C8_RegistrationOrder ==
    LET order == FirstOccurrences(AllRegistrations, {})
    IN  /\ last.op = "get_supported_domains" => last.domains = order
        /\ last.op = "create_scraper" =>
              LET domain == extract_domain(last.arg)
                  tried == {i \in 1..Len(order) : Contains(domain, order[i])}
              IN  IF domain = None \/ domain = "" \/ tried = {}
                  THEN last.cls = None
                  ELSE last.cls = Lookup(order[Min(tried)])

\* C8 witness: the list is read after a new pattern was registered and then a
\* built-in pattern re-registered
C8_Witness ==
    /\ last.op = "get_supported_domains"
    /\ Len(history) = 2
    /\ history[1].key \notin Keys(BuiltinMap)
    /\ history[2].key \in Keys(BuiltinMap)
    /\ Len(last.domains) = 3

\* C10: with the registry unchanged, two create_scraper calls whose URLs have
\* the same host return the same class or both Unsupported, whatever the
\* URLs' userinfo, port, path and query.
C10_SameHostSameOutcome ==
    (/\ prev.op = "create_scraper"
     /\ last.op = "create_scraper"
     /\ HostOf[prev.arg] # ""
     /\ HostOf[prev.arg] = HostOf[last.arg])
        => prev.cls = last.cls

(***************************************************************************)
(* Claims about main.                                                      *)
(***************************************************************************)
AfterWith == {"summary", "export_csv", "export_json", "export_db", "done"}

\* C4: the session is released exactly once on every path out of the managed
\* scope (return, exception, interrupt), and never without a preceding acquire.
C4_ReleasedExactlyOnce ==
    /\ released <= acquired
    /\ acquired <= 1
    /\ pc \in {"scrape", "exit"} => (acquired = 1 /\ released = 0)
    /\ (acquired = 1 /\ pc \in AfterWith \cup {"handler"}) => released = 1

\* C4 witness: scrape() raised inside the scope and main has returned
C4_Witness ==
    /\ pc = "done"
    /\ pending = [kind |-> "Exception", at |-> "scrape"]
    /\ acquired = 1
    /\ released = 1

InterruptedInScrape == pending = [kind |-> "KeyboardInterrupt", at |-> "scrape"]

\* C5: an interrupt during scrape() leaves the session released, prints no
\* summary, exports nothing, and main returns 130, which it returns for no
\* outcome other than an interrupt.
C5_InterruptIsDistinct ==
    /\ (InterruptedInScrape /\ pc \in {"handler", "done"}) =>
          /\ released = 1
          /\ result = NoResult
          /\ ~output.summary
          /\ ~output.csv /\ ~output.json /\ ~output.dbOpened /\ ~output.dbSaved
    /\ (InterruptedInScrape /\ pc = "done") => exitCode = ExitInterrupted
    /\ exitCode = ExitInterrupted => pending.kind = "KeyboardInterrupt"

\* C5 witness: main has returned after an interrupt during scrape()
C5_Witness == InterruptedInScrape /\ pc = "done" /\ acquired = 1

\* C6: with --no-database, export_data never opens DatabaseStorage nor saves to it.
C6_NoDatabaseDisablesStorage ==
    args.no_database => (~output.dbOpened /\ ~output.dbSaved)

ZeroSuccessDone ==
    pc = "done" /\ pending.kind = "none" /\ result # NoResult /\ result.successful = 0

RaisedDone == pc = "done" /\ pending.kind = "Exception"

\* C9 (as claimed): the exit code main returns for a Result with successful = 0
\* differs from the exit code it returns when scrape() or the acquisition raises.
C9_ZeroSuccessExitCodeDiffers ==
    /\ RaisedDone => exitCode = except_clause("Exception").code
    /\ ZeroSuccessDone => exitCode # except_clause("Exception").code

\* C9 (amended): both outcomes return exit code 1; they differ in what main
\* prints: the result summary and "no products" for zero successes, no summary
\* and the error message for a raised error.
C9_ZeroSuccessDiffersInOutput ==
    /\ ZeroSuccessDone =>
          /\ exitCode = ExitNoProducts
          /\ output.summary
          /\ output.message = "no_products"
    /\ RaisedDone =>
          /\ exitCode = ExitError
          /\ ~output.summary
          /\ output.message = "error"
    /\ ExitNoProducts = ExitError

\* C9 witness: scrape() returned a Result with no success and some failure
C9_Witness == ZeroSuccessDone /\ result.failed > 0 /\ released = 1

====
